---- MODULE Spec2Model ----
(***************************************************************************)
(* Model of the user-management service of go-mongodb-test:                *)
(*   models/user.go            User, HashPassword, CheckPassword           *)
(*   services/user_service.go  UserService (the persistence gateway)       *)
(*   handlers/user_handler.go  UserHandler (the HTTP handlers)             *)
(* The "users" collection is a set of documents with a unique _id.  Every  *)
(* call on the collection (FindOne, InsertOne, UpdateOne, DeleteOne, Find) *)
(* is one atomic step that either fails (a transient store error) or acts  *)
(* on the collection; the steps of different requests interleave.          *)
(***************************************************************************)
EXTENDS Integers, Sequences, FiniteSets, TLC

\* ------------------------------------------------------------------------
\* Bounds of the model
\* ------------------------------------------------------------------------

\* number of InsertOne calls that may succeed in one behaviour
MaxInserts == 2

\* the clock is read at instants 0..MaxClock
MaxClock == 1

\* ------------------------------------------------------------------------
\* Strings.  Identifier strings and passwords are tuples of characters,
\* user_id and email values are opaque strings ("" is the empty string).
\* ------------------------------------------------------------------------

Rep(c, n) == [i \in 1..n |-> c]

HexDigits == <<"0", "1", "2", "3", "4", "5", "6", "7",
               "8", "9", "a", "b", "c", "d", "e", "f">>

UpperHexDigits == <<"0", "1", "2", "3", "4", "5", "6", "7",
                    "8", "9", "A", "B", "C", "D", "E", "F">>

IsHexDigit(c) == \E k \in 1..16 : HexDigits[k] = c \/ UpperHexDigits[k] = c

HexVal(c) == (CHOOSE k \in 1..16 : HexDigits[k] = c \/ UpperHexDigits[k] = c) - 1

\* a decoder that forgets the length check and pads what it is given
ObjectIDFromHex_NoLength(s) ==
    IF \A i \in 1..Len(s) : IsHexDigit(s[i])
    THEN [err  |-> FALSE,
          oid  |-> [i \in 1..12 |-> IF 2 * i <= Len(s)
                                    THEN 16 * HexVal(s[2 * i - 1]) + HexVal(s[2 * i])
                                    ELSE 0]]
    ELSE [err  |-> TRUE, oid |-> <<>>]

\* bson.ObjectIDFromHex: exactly 24 hexadecimal digits (either case) decode
\* to the 12 bytes of the identifier; anything else is an error.
ObjectIDFromHex(s) ==
    IF Len(s) = 24 /\ \A i \in 1..24 : IsHexDigit(s[i])
    THEN [err  |-> FALSE,
          oid  |-> [i \in 1..12 |-> 16 * HexVal(s[2 * i - 1]) + HexVal(s[2 * i])]]
    ELSE [err  |-> TRUE, oid |-> <<>>]

\* ObjectID.Hex / MarshalJSON: the 24 lower-case hexadecimal digits.
Hex(oid) ==
    [i \in 1..24 |-> IF i % 2 = 1
                     THEN HexDigits[(oid[(i + 1) \div 2] \div 16) + 1]
                     ELSE HexDigits[(oid[i \div 2] % 16) + 1]]

ToUpper(s) ==
    [i \in 1..Len(s) |->
        IF \E k \in 1..16 : HexDigits[k] = s[i]
        THEN UpperHexDigits[CHOOSE k \in 1..16 : HexDigits[k] = s[i]]
        ELSE s[i]]

\* a driver that generates the same identifier again and again
NewObjectID_Same(n) == [i \in 1..12 |-> IF i = 1 THEN 171 ELSE IF i = 12 THEN 1 ELSE 0]

\* The identifier the driver generates for the n-th inserted document
\* (_id is omitted from the inserted document while it is the zero value).
NewObjectID(n) == [i \in 1..12 |-> IF i = 1 THEN 171 ELSE IF i = 12 THEN n ELSE 0]

\* ------------------------------------------------------------------------
\* models/user.go
\* ------------------------------------------------------------------------

\* bcrypt with a given salt: the digest string carries the salt.
Bcrypt(salt, password) == <<"$", "2", "a", "$", salt, "$">> \o password

\* a hashing that gives the empty password an empty digest
GenerateFromPassword_EmptyForEmpty(password, salt) ==
    IF Len(password) > 72
    THEN [err |-> TRUE, hash |-> <<>>]
    ELSE [err |-> FALSE,
          hash |-> IF password = <<>> THEN <<>> ELSE Bcrypt(salt, password)]

\* bcrypt.GenerateFromPassword fails on a password longer than 72 bytes.
GenerateFromPassword(password, salt) ==
    IF Len(password) > 72
    THEN [err |-> TRUE, hash |-> <<>>]
    ELSE [err |-> FALSE, hash |-> Bcrypt(salt, password)]

\* a HashPassword that stores the password as it is given
HashPassword_Plaintext(u, password, salt) ==
    LET g == GenerateFromPassword(password, salt)
    IN  IF g.err
        THEN [err |-> TRUE, user |-> u]
        ELSE [err |-> FALSE, user |-> [u EXCEPT !.password = password]]

\* User.HashPassword: on success the entity's Password becomes the hash.
HashPassword(u, password, salt) ==
    LET g == GenerateFromPassword(password, salt)
    IN  IF g.err
        THEN [err |-> TRUE, user |-> u]
        ELSE [err |-> FALSE, user |-> [u EXCEPT !.password = g.hash]]

\* bcrypt.CompareHashAndPassword: re-hash the candidate with the salt of the
\* stored hash and compare; a malformed stored hash never matches.
CompareHashAndPassword(hash, password) ==
    /\ Len(hash) >= 6
    /\ SubSeq(hash, 1, 4) = <<"$", "2", "a", "$">>
    /\ hash[6] = "$"
    /\ Bcrypt(hash[5], password) = hash

\* User.CheckPassword
CheckPassword(u, password) == CompareHashAndPassword(u.password, password)

\* ------------------------------------------------------------------------
\* State
\* ------------------------------------------------------------------------

\* the requests the HTTP runtime handles at the same time
Procs == {"r1", "r2"}

VARIABLES
    collection,   \* the documents of the "users" collection
    inserted,     \* number of documents inserted so far (drives NewObjectID)
    now,          \* the clock read by time.Now()
    pc,           \* per request: the store call it is about to issue
    req,          \* per request: operation and inputs
    local,        \* per request: objectID, updateFields, user
    ret,          \* per request: what the service method returned
    resp,         \* per request: the HTTP response of the handler
    calls,        \* per request: number of store calls issued so far
    storeErr      \* per request: a store call of this request has failed

vars == <<collection, inserted, now, pc, req, local, ret, resp, calls, storeErr>>

\* the salts bcrypt may draw
Salts == {"s1"}

\* optional values (Go pointers, nil results): <<>> is nil, <<v>> is v
Nil == <<>>
Some(v) == <<v>>
IsNil(o) == o = <<>>
Val(o) == o[1]

StatusOK == 200
StatusCreated == 201
StatusBadRequest == 400
StatusNotFound == 404
StatusConflict == 409
StatusInternalServerError == 500

ErrUserIDExists == "user with this user_id already exists"
ErrEmailExists == "user with this email already exists"
ErrHashPassword == "failed to hash password"
ErrCreateUser == "failed to create user"
ErrInvalidUserID == "invalid user ID"
ErrUserNotFound == "user not found"
ErrGetUser == "failed to get user"
ErrUpdateUser == "failed to update user"
ErrDeleteUser == "failed to delete user"
ErrGetUsers == "failed to get users"
ErrDecodeUser == "failed to decode user"

\* errors of the driver: mongo.ErrNoDocuments, and any other failure
ErrNoDocuments == "mongo: no documents in result"
ErrStore == "store error"

NoReq == [op |-> "none"]
\* modified: the UpdateOne of this request changed a document
\* (UpdateResult.ModifiedCount > 0, a result the service discards); kept by
\* the profiles with modifiedCount set
NoLocal == [objectID |-> Nil, updateFields |-> Nil, user |-> Nil, modified |-> FALSE]
NoRet == [user |-> Nil, users |-> Nil, err |-> ""]
NoResp == [status |-> 0, body |-> Nil]

Init ==
    /\ collection = {}
    /\ inserted = 0
    /\ now = 0
    /\ pc = [p \in Procs |-> "idle"]
    /\ req = [p \in Procs |-> NoReq]
    /\ local = [p \in Procs |-> NoLocal]
    /\ ret = [p \in Procs |-> NoRet]
    /\ resp = [p \in Procs |-> NoResp]
    /\ calls = [p \in Procs |-> 0]
    /\ storeErr = [p \in Procs |-> FALSE]

\* ------------------------------------------------------------------------
\* The collection (mongo.Collection).  Each operator gives the set of
\* outcomes the call can have in the current state.
\* ------------------------------------------------------------------------

\* FindOne(filter).Decode: any one matching document, ErrNoDocuments when
\* none matches, or a failure of the call itself.
FindOne(field, value) ==
    LET matches == {d \in collection : d[field] = value}
    IN  {[err |-> ErrStore, doc |-> Nil]}
        \cup (IF matches = {}
              THEN {[err |-> ErrNoDocuments, doc |-> Nil]}
              ELSE {[err |-> "", doc |-> Some(d)] : d \in matches})

\* an InsertOne on a collection with a unique index on user_id
InsertOne_UniqueIndex(doc) ==
    {[err |-> ErrStore, coll |-> collection, id |-> Nil]}
    \cup (IF \E d \in collection : d.user_id = doc.user_id
          THEN {[err |-> "E11000 duplicate key error", coll |-> collection, id |-> Nil]}
          ELSE IF inserted < MaxInserts
          THEN {[err  |-> "",
                 coll |-> collection \cup {[doc EXCEPT !.id = NewObjectID(inserted + 1)]},
                 id   |-> Some(NewObjectID(inserted + 1))]}
          ELSE {})

\* the collection has no unique index on user_id or email: InsertOne only
\* generates the _id
InsertOne(doc) ==
    {[err |-> ErrStore, coll |-> collection, id |-> Nil]}
    \cup (IF inserted < MaxInserts
          THEN {[err  |-> "",
                 coll |-> collection \cup {[doc EXCEPT !.id = NewObjectID(inserted + 1)]},
                 id   |-> Some(NewObjectID(inserted + 1))]}
          ELSE {})

\* a write that is lost
Set_Nothing(doc, fields) == doc

\* {"$set": fields} applied to one document
Set(doc, fields) ==
    [f \in DOMAIN doc |-> IF f \in DOMAIN fields THEN fields[f] ELSE doc[f]]

\* an update whose filter matches every document
UpdateOne_NoFilter(oid, fields) ==
    {[err |-> ErrStore, coll |-> collection],
     [err |-> "", coll |-> {Set(d, fields) : d \in collection}]}

\* an update that is applied although the call reports a failure
UpdateOne_WriteThenFail(oid, fields) ==
    {[err |-> ErrStore,
      coll |-> {IF d.id = oid THEN Set(d, fields) ELSE d : d \in collection}],
     [err |-> "",
      coll |-> {IF d.id = oid THEN Set(d, fields) ELSE d : d \in collection}]}

\* an update with upsert: a document is inserted when none matches
UpdateOne_Upsert(oid, fields) ==
    {[err |-> ErrStore, coll |-> collection],
     [err |-> "",
      coll |-> IF \E d \in collection : d.id = oid
               THEN {IF d.id = oid THEN Set(d, fields) ELSE d : d \in collection}
               ELSE collection \cup
                    {Set([id |-> oid, user_id |-> "", email |-> "", password |-> <<>>,
                          created_at |-> 0, updated_at |-> 0], fields)}]}

\* UpdateOne({"_id": oid}, {"$set": fields}); no upsert
UpdateOne(oid, fields) ==
    {[err |-> ErrStore, coll |-> collection],
     [err |-> "",
      coll |-> {IF d.id = oid THEN Set(d, fields) ELSE d : d \in collection}]}

\* a delete whose filter matches every document
DeleteOne_All(oid) ==
    {[err |-> ErrStore, coll |-> collection, deletedCount |-> 0],
     [err |-> "",
      coll |-> {},
      deletedCount |-> Cardinality(collection)]}

\* DeleteOne({"_id": oid})
DeleteOne(oid) ==
    {[err |-> ErrStore, coll |-> collection, deletedCount |-> 0],
     [err |-> "",
      coll |-> {d \in collection : d.id # oid},
      deletedCount |-> Cardinality({d \in collection : d.id = oid})]}

\* a query that yields at most one document
Find_One ==
    {[err |-> ErrStore, docs |-> {}]}
    \cup {[err |-> "", docs |-> ds] :
           ds \in {x \in SUBSET collection :
                    Cardinality(x) = IF collection = {} THEN 0 ELSE 1}}

\* Find({}) and the iteration of its cursor
Find ==
    {[err |-> ErrStore, docs |-> {}], [err |-> "", docs |-> collection]}

\* ------------------------------------------------------------------------
\* services/user_service.go: what each method returns for the outcome of
\* its store call
\* ------------------------------------------------------------------------

Return(user, err) == [user |-> user, users |-> Nil, err |-> err]

\* a lookup that reports no match as an error, as GetUserByID does
GetUserByUserID_NotFoundError(o) ==
    IF o.err # ""
    THEN IF o.err = ErrNoDocuments
         THEN Return(Nil, ErrUserNotFound)
         ELSE Return(Nil, ErrGetUser)
    ELSE Return(o.doc, "")

GetUserByUserID(o) ==
    IF o.err # ""
    THEN IF o.err = ErrNoDocuments THEN Return(Nil, "") ELSE Return(Nil, ErrGetUser)
    ELSE Return(o.doc, "")

GetUserByEmail(o) ==
    IF o.err # ""
    THEN IF o.err = ErrNoDocuments THEN Return(Nil, "") ELSE Return(Nil, ErrGetUser)
    ELSE Return(o.doc, "")

GetUserByID(o) ==
    IF o.err # ""
    THEN IF o.err = ErrNoDocuments
         THEN Return(Nil, ErrUserNotFound)
         ELSE Return(Nil, ErrGetUser)
    ELSE Return(o.doc, "")

\* a delete that does not look at DeletedCount
DeleteUserResult_IgnoreCount(o) ==
    IF o.err # "" THEN Return(Nil, ErrDeleteUser) ELSE Return(Nil, "")

DeleteUserResult(o) ==
    IF o.err # "" THEN Return(Nil, ErrDeleteUser)
    ELSE IF o.deletedCount = 0 THEN Return(Nil, ErrUserNotFound)
    ELSE Return(Nil, "")

\* "var users []*models.User" stays the nil slice when the cursor yields no
\* document
ListUsersResult(o) ==
    IF o.err # "" THEN [user |-> Nil, users |-> Nil, err |-> ErrGetUsers]
    ELSE [user |-> Nil,
          users |-> IF o.docs = {} THEN Nil ELSE Some(o.docs),
          err |-> ""]

\* ------------------------------------------------------------------------
\* handlers/user_handler.go: the response for what the service returned
\* ------------------------------------------------------------------------

\* an encoding that writes the Password field too
JSON_WithPassword(u) ==
    [id |-> Hex(u.id), user_id |-> u.user_id, email |-> u.email,
     password |-> u.password,
     created_at |-> u.created_at, updated_at |-> u.updated_at]

\* encoding/json of models.User: Password carries json:"-"
JSON(u) ==
    [id |-> Hex(u.id), user_id |-> u.user_id, email |-> u.email,
     created_at |-> u.created_at, updated_at |-> u.updated_at]

Response(status, body) == [status |-> status, body |-> Some(body)]

ErrorResponse(status, msg) == Response(status, [error |-> msg])

CreateUserResponse(r) ==
    IF r.err # ""
    THEN ErrorResponse(StatusConflict, r.err)
    ELSE Response(StatusCreated, JSON(Val(r.user)))

\* a handler that answers every error of the service with 500
GetUserResponse_AllErrors500(r) ==
    IF r.err # ""
    THEN ErrorResponse(StatusInternalServerError, r.err)
    ELSE Response(StatusOK, JSON(Val(r.user)))

GetUserResponse(r) ==
    IF r.err # ""
    THEN IF r.err = ErrUserNotFound
         THEN ErrorResponse(StatusNotFound, "User not found")
         ELSE ErrorResponse(StatusInternalServerError, r.err)
    ELSE Response(StatusOK, JSON(Val(r.user)))

GetUserByUserIDResponse(r) ==
    IF r.err # "" THEN ErrorResponse(StatusInternalServerError, r.err)
    ELSE IF IsNil(r.user) THEN ErrorResponse(StatusNotFound, "User not found")
    ELSE Response(StatusOK, JSON(Val(r.user)))

GetUserByEmailResponse(r) ==
    IF r.err # "" THEN ErrorResponse(StatusInternalServerError, r.err)
    ELSE IF IsNil(r.user) THEN ErrorResponse(StatusNotFound, "User not found")
    ELSE Response(StatusOK, JSON(Val(r.user)))

UpdateUserResponse(r) ==
    IF r.err # ""
    THEN IF r.err = ErrUserNotFound
         THEN ErrorResponse(StatusNotFound, "User not found")
         ELSE ErrorResponse(StatusConflict, r.err)
    ELSE Response(StatusOK, JSON(Val(r.user)))

DeleteUserResponse(r) ==
    IF r.err # ""
    THEN IF r.err = ErrUserNotFound
         THEN ErrorResponse(StatusNotFound, "User not found")
         ELSE ErrorResponse(StatusInternalServerError, r.err)
    ELSE Response(StatusOK, [message |-> "User deleted successfully"])

\* encoding/json writes a nil slice as null, a slice as an array; len of
\* either is the number of its entries
ListUsersResponse(r) ==
    IF r.err # ""
    THEN ErrorResponse(StatusInternalServerError, r.err)
    ELSE Response(StatusOK,
                  [users |-> IF IsNil(r.users)
                             THEN Nil
                             ELSE Some({JSON(u) : u \in Val(r.users)}),
                   count |-> IF IsNil(r.users) THEN 0 ELSE Cardinality(Val(r.users))])

\* ------------------------------------------------------------------------
\* Requests
\* ------------------------------------------------------------------------

\* no response is waiting to be sent: a finished request is answered before
\* any other step is taken
Quiet == \A q \in Procs : pc[q] # "done"

\* the slot is free to take a request
Ready(p) == pc[p] = "idle" /\ Quiet

\* the request is received: its inputs are stored, its counters reset
Receive(p, rq) ==
    /\ req' = [req EXCEPT ![p] = rq]
    /\ calls' = [calls EXCEPT ![p] = 0]
    /\ storeErr' = [storeErr EXCEPT ![p] = FALSE]

\* the request issues one store call with outcome o
Issue(p, o) ==
    /\ calls' = [calls EXCEPT ![p] = @ + 1]
    /\ storeErr' = [storeErr EXCEPT ![p] = @ \/ o.err = ErrStore]
    /\ UNCHANGED req

\* the service method returns r; a request that came through the handler is
\* answered with h
Finish(p, rq, r, h) ==
    /\ pc' = [pc EXCEPT ![p] = "done"]
    /\ ret' = [ret EXCEPT ![p] = r]
    /\ resp' = [resp EXCEPT ![p] = IF rq.entry = "http" THEN h ELSE NoResp]

\* the handler answers without calling the service
Reject(p, h) ==
    /\ pc' = [pc EXCEPT ![p] = "done"]
    /\ ret' = [ret EXCEPT ![p] = NoRet]
    /\ resp' = [resp EXCEPT ![p] = h]

\* the service method goes on to its next store call
Goto(p, to) ==
    /\ pc' = [pc EXCEPT ![p] = to]
    /\ ret' = [ret EXCEPT ![p] = NoRet]
    /\ resp' = [resp EXCEPT ![p] = NoResp]

\* ---- POST /users, UserService.CreateUser --------------------------------

\* a validation that forgets the password
RequiredFieldMissing_NoPassword(rq) ==
    rq.user_id = "" \/ rq.email = ""

\* the handler's test of the bound body: a required field is missing or empty
RequiredFieldMissing(rq) ==
    rq.user_id = "" \/ rq.email = "" \/ rq.password = <<>>

CreateUser_Begin(p, In) ==
    /\ Ready(p)
    /\ \E entry \in In.entries, bind \in In.binds,
          uid \in In.userIDs, em \in In.emails, pw \in In.passwords :
        LET rq == IF bind
                  THEN [op |-> "CreateUser", entry |-> entry, bind |-> TRUE,
                        user_id |-> uid, email |-> em, password |-> pw]
                  ELSE [op |-> "CreateUser", entry |-> entry, bind |-> FALSE,
                        user_id |-> "", email |-> "", password |-> <<>>]
        IN  /\ bind \/ entry = "http"
            /\ Receive(p, rq)
            /\ IF ~bind
               THEN Reject(p, ErrorResponse(StatusBadRequest, "Invalid request body"))
               ELSE IF entry = "http" /\ RequiredFieldMissing(rq)
               THEN Reject(p, ErrorResponse(StatusBadRequest,
                                  "user_id, email, and password are required"))
               ELSE Goto(p, "CreateUser:findUserID")
    /\ local' = [local EXCEPT ![p] = NoLocal]
    /\ UNCHANGED <<collection, inserted, now>>

CreateUser_FindUserID(p) ==
    /\ pc[p] = "CreateUser:findUserID"
    /\ Quiet
    /\ \E o \in FindOne("user_id", req[p].user_id) :
        LET existingUser == GetUserByUserID(o).user
        IN  /\ Issue(p, o)
            /\ IF ~IsNil(existingUser)
               THEN Finish(p, req[p], Return(Nil, ErrUserIDExists),
                           CreateUserResponse(Return(Nil, ErrUserIDExists)))
               ELSE Goto(p, "CreateUser:findEmail")
    /\ UNCHANGED <<collection, inserted, now, local>>

CreateUser_FindEmail(p) ==
    /\ pc[p] = "CreateUser:findEmail"
    /\ Quiet
    /\ \E o \in FindOne("email", req[p].email), salt \in Salts :
        LET existingUser == GetUserByEmail(o).user
            user == [id |-> Nil, user_id |-> req[p].user_id, email |-> req[p].email,
                     password |-> <<>>, created_at |-> now, updated_at |-> now]
            h == HashPassword(user, req[p].password, salt)
        IN  /\ Issue(p, o)
            /\ IF ~IsNil(existingUser)
               THEN /\ Finish(p, req[p], Return(Nil, ErrEmailExists),
                              CreateUserResponse(Return(Nil, ErrEmailExists)))
                    /\ UNCHANGED local
               ELSE IF h.err
               THEN /\ Finish(p, req[p], Return(Nil, ErrHashPassword),
                              CreateUserResponse(Return(Nil, ErrHashPassword)))
                    /\ UNCHANGED local
               ELSE /\ Goto(p, "CreateUser:insertOne")
                    /\ local' = [local EXCEPT ![p].user = Some(h.user)]
    /\ UNCHANGED <<collection, inserted, now>>

CreateUser_InsertOne(p) ==
    /\ pc[p] = "CreateUser:insertOne"
    /\ Quiet
    /\ \E o \in InsertOne(Val(local[p].user)) :
        LET r == IF o.err # ""
                 THEN Return(Nil, ErrCreateUser)
                 ELSE Return(Some([Val(local[p].user) EXCEPT !.id = Val(o.id)]), "")
        IN  /\ Issue(p, o)
            /\ collection' = o.coll
            /\ inserted' = IF o.err = "" THEN inserted + 1 ELSE inserted
            /\ Finish(p, req[p], r, CreateUserResponse(r))
    /\ UNCHANGED <<now, local>>

\* ---- PUT /users/:id, UserService.UpdateUser -----------------------------

\* the rest of UpdateUser up to its next store call, after the part named by
\* "after" ("parse", "user_id" or "email"), with updateFields as built so far
UpdateUser_Continue(p, rq, oid, fields, after) ==
    IF after = "parse" /\ ~IsNil(rq.user_id)
    THEN /\ Goto(p, "UpdateUser:findUserID")
         /\ local' = [local EXCEPT ![p] = [objectID |-> Some(oid),
                                           updateFields |-> Some(fields), user |-> Nil,
                                           modified |-> FALSE]]
    ELSE IF after \in {"parse", "user_id"} /\ ~IsNil(rq.email)
    THEN /\ Goto(p, "UpdateUser:findEmail")
         /\ local' = [local EXCEPT ![p] = [objectID |-> Some(oid),
                                           updateFields |-> Some(fields), user |-> Nil,
                                           modified |-> FALSE]]
    ELSE IF IsNil(rq.password)
    THEN /\ Goto(p, "UpdateUser:updateOne")
         /\ local' = [local EXCEPT ![p] = [objectID |-> Some(oid),
                                           updateFields |-> Some(fields), user |-> Nil,
                                           modified |-> FALSE]]
    ELSE \E salt \in Salts :
        LET h == HashPassword([password |-> <<>>], Val(rq.password), salt)
        IN  IF h.err
            THEN /\ Finish(p, rq, Return(Nil, ErrHashPassword),
                           UpdateUserResponse(Return(Nil, ErrHashPassword)))
                 /\ local' = [local EXCEPT ![p] = [objectID |-> Some(oid),
                                                   updateFields |-> Some(fields),
                                                   user |-> Nil, modified |-> FALSE]]
            ELSE /\ Goto(p, "UpdateUser:updateOne")
                 /\ local' = [local EXCEPT ![p] =
                                 [objectID |-> Some(oid),
                                  updateFields |-> Some(("password" :> h.user.password) @@ fields),
                                  user |-> Nil, modified |-> FALSE]]

\* an update document that also carries the creation time
UpdateFields_WithCreatedAt(t) ==
    ("updated_at" :> t) @@ ("created_at" :> t)

\* updateFields as UpdateUser first builds it, with time.Now() read as t
UpdateFields(t) == "updated_at" :> t

\* a uniqueness check that does not exclude the record being updated
Collides_NoSelf(existingUser, objectID) ==
    ~IsNil(existingUser)

\* the value looked up is held by a record other than the one being updated
Collides(existingUser, objectID) ==
    ~IsNil(existingUser) /\ Val(existingUser).id # objectID

UpdateUser_Begin(p, In) ==
    /\ Ready(p)
    /\ \E entry \in In.entries, bind \in In.binds, id \in In.ids,
          uid \in {Nil} \cup {Some(v) : v \in In.userIDs},
          em \in {Nil} \cup {Some(v) : v \in In.emails},
          pw \in {Nil} \cup {Some(v) : v \in In.newPasswords} :
        LET rq == IF bind
                  THEN [op |-> "UpdateUser", entry |-> entry, bind |-> TRUE, id |-> id,
                        user_id |-> uid, email |-> em, password |-> pw]
                  ELSE [op |-> "UpdateUser", entry |-> entry, bind |-> FALSE, id |-> id,
                        user_id |-> Nil, email |-> Nil, password |-> Nil]
            parsed == ObjectIDFromHex(id)
        IN  /\ bind \/ entry = "http"
            /\ id \in In.targets \/ (uid = Nil /\ em = Nil /\ pw = Nil)
            /\ Receive(p, rq)
            /\ IF entry = "http" /\ id = <<>>
               THEN /\ Reject(p, ErrorResponse(StatusBadRequest, "User ID is required"))
                    /\ local' = [local EXCEPT ![p] = NoLocal]
               ELSE IF ~bind
               THEN /\ Reject(p, ErrorResponse(StatusBadRequest, "Invalid request body"))
                    /\ local' = [local EXCEPT ![p] = NoLocal]
               ELSE IF parsed.err
               THEN /\ Finish(p, rq, Return(Nil, ErrInvalidUserID),
                              UpdateUserResponse(Return(Nil, ErrInvalidUserID)))
                    /\ local' = [local EXCEPT ![p] = NoLocal]
               ELSE UpdateUser_Continue(p, rq, parsed.oid, UpdateFields(now), "parse")
    /\ UNCHANGED <<collection, inserted, now>>

UpdateUser_FindUserID(p) ==
    /\ pc[p] = "UpdateUser:findUserID"
    /\ Quiet
    /\ \E o \in FindOne("user_id", Val(req[p].user_id)) :
        LET existingUser == GetUserByUserID(o).user
            objectID == Val(local[p].objectID)
        IN  /\ Issue(p, o)
            /\ IF Collides(existingUser, objectID)
               THEN /\ Finish(p, req[p], Return(Nil, ErrUserIDExists),
                              UpdateUserResponse(Return(Nil, ErrUserIDExists)))
                    /\ UNCHANGED local
               ELSE UpdateUser_Continue(p, req[p], objectID,
                        ("user_id" :> Val(req[p].user_id)) @@ Val(local[p].updateFields),
                        "user_id")
    /\ UNCHANGED <<collection, inserted, now>>

UpdateUser_FindEmail(p) ==
    /\ pc[p] = "UpdateUser:findEmail"
    /\ Quiet
    /\ \E o \in FindOne("email", Val(req[p].email)) :
        LET existingUser == GetUserByEmail(o).user
            objectID == Val(local[p].objectID)
        IN  /\ Issue(p, o)
            /\ IF Collides(existingUser, objectID)
               THEN /\ Finish(p, req[p], Return(Nil, ErrEmailExists),
                              UpdateUserResponse(Return(Nil, ErrEmailExists)))
                    /\ UNCHANGED local
               ELSE UpdateUser_Continue(p, req[p], objectID,
                        ("email" :> Val(req[p].email)) @@ Val(local[p].updateFields),
                        "email")
    /\ UNCHANGED <<collection, inserted, now>>

UpdateUser_UpdateOne(p, In) ==
    /\ pc[p] = "UpdateUser:updateOne"
    /\ Quiet
    /\ \E o \in UpdateOne(Val(local[p].objectID), Val(local[p].updateFields)) :
        /\ Issue(p, o)
        /\ collection' = o.coll
        /\ local' = [local EXCEPT ![p].modified =
                                    In.modifiedCount /\ o.coll # collection]
        /\ IF o.err # ""
           THEN Finish(p, req[p], Return(Nil, ErrUpdateUser),
                       UpdateUserResponse(Return(Nil, ErrUpdateUser)))
           ELSE Goto(p, "UpdateUser:getUserByID")
    /\ UNCHANGED <<inserted, now>>

UpdateUser_GetUserByID(p) ==
    /\ pc[p] = "UpdateUser:getUserByID"
    /\ Quiet
    /\ \E o \in FindOne("id", ObjectIDFromHex(req[p].id).oid) :
        /\ Issue(p, o)
        /\ Finish(p, req[p], GetUserByID(o), UpdateUserResponse(GetUserByID(o)))
    /\ UNCHANGED <<collection, inserted, now, local>>

\* ---- GET /users/:id, UserService.GetUserByID ----------------------------

GetUser(p, In) ==
    /\ Ready(p)
    /\ \E entry \in In.entries, id \in In.ids :
        LET rq == [op |-> "GetUser", entry |-> entry, id |-> id]
            parsed == ObjectIDFromHex(id)
        IN  /\ req' = [req EXCEPT ![p] = rq]
            /\ IF entry = "http" /\ id = <<>>
               THEN /\ Reject(p, ErrorResponse(StatusBadRequest, "User ID is required"))
                    /\ calls' = [calls EXCEPT ![p] = 0]
                    /\ storeErr' = [storeErr EXCEPT ![p] = FALSE]
               ELSE IF parsed.err
               THEN /\ Finish(p, rq, Return(Nil, ErrInvalidUserID),
                              GetUserResponse(Return(Nil, ErrInvalidUserID)))
                    /\ calls' = [calls EXCEPT ![p] = 0]
                    /\ storeErr' = [storeErr EXCEPT ![p] = FALSE]
               ELSE \E o \in FindOne("id", parsed.oid) :
                    /\ Finish(p, rq, GetUserByID(o), GetUserResponse(GetUserByID(o)))
                    /\ calls' = [calls EXCEPT ![p] = 1]
                    /\ storeErr' = [storeErr EXCEPT ![p] = o.err = ErrStore]
    /\ local' = [local EXCEPT ![p] = NoLocal]
    /\ UNCHANGED <<collection, inserted, now>>

\* ---- DELETE /users/:id, UserService.DeleteUser --------------------------

DeleteUser(p, In) ==
    /\ Ready(p)
    /\ \E entry \in In.entries, id \in In.ids :
        LET rq == [op |-> "DeleteUser", entry |-> entry, id |-> id]
            parsed == ObjectIDFromHex(id)
        IN  /\ req' = [req EXCEPT ![p] = rq]
            /\ IF entry = "http" /\ id = <<>>
               THEN /\ Reject(p, ErrorResponse(StatusBadRequest, "User ID is required"))
                    /\ calls' = [calls EXCEPT ![p] = 0]
                    /\ storeErr' = [storeErr EXCEPT ![p] = FALSE]
                    /\ UNCHANGED collection
               ELSE IF parsed.err
               THEN /\ Finish(p, rq, Return(Nil, ErrInvalidUserID),
                              DeleteUserResponse(Return(Nil, ErrInvalidUserID)))
                    /\ calls' = [calls EXCEPT ![p] = 0]
                    /\ storeErr' = [storeErr EXCEPT ![p] = FALSE]
                    /\ UNCHANGED collection
               ELSE \E o \in DeleteOne(parsed.oid) :
                    /\ Finish(p, rq, DeleteUserResult(o),
                              DeleteUserResponse(DeleteUserResult(o)))
                    /\ calls' = [calls EXCEPT ![p] = 1]
                    /\ storeErr' = [storeErr EXCEPT ![p] = o.err = ErrStore]
                    /\ collection' = o.coll
    /\ local' = [local EXCEPT ![p] = NoLocal]
    /\ UNCHANGED <<inserted, now>>

\* ---- GET /users/search?user_id=, UserService.GetUserByUserID ------------

GetUserByUserID_Search(p, In) ==
    /\ Ready(p)
    /\ \E entry \in In.entries, key \in In.userIDs :
        LET rq == [op |-> "GetUserByUserID", entry |-> entry, key |-> key]
        IN  /\ req' = [req EXCEPT ![p] = rq]
            /\ IF entry = "http" /\ key = ""
               THEN /\ Reject(p, ErrorResponse(StatusBadRequest,
                                      "user_id query parameter is required"))
                    /\ calls' = [calls EXCEPT ![p] = 0]
                    /\ storeErr' = [storeErr EXCEPT ![p] = FALSE]
               ELSE \E o \in FindOne("user_id", key) :
                    /\ Finish(p, rq, GetUserByUserID(o),
                              GetUserByUserIDResponse(GetUserByUserID(o)))
                    /\ calls' = [calls EXCEPT ![p] = 1]
                    /\ storeErr' = [storeErr EXCEPT ![p] = o.err = ErrStore]
    /\ local' = [local EXCEPT ![p] = NoLocal]
    /\ UNCHANGED <<collection, inserted, now>>

\* ---- GET /users/search/email?email=, UserService.GetUserByEmail ---------

GetUserByEmail_Search(p, In) ==
    /\ Ready(p)
    /\ \E entry \in In.entries, key \in In.emails :
        LET rq == [op |-> "GetUserByEmail", entry |-> entry, key |-> key]
        IN  /\ req' = [req EXCEPT ![p] = rq]
            /\ IF entry = "http" /\ key = ""
               THEN /\ Reject(p, ErrorResponse(StatusBadRequest,
                                      "email query parameter is required"))
                    /\ calls' = [calls EXCEPT ![p] = 0]
                    /\ storeErr' = [storeErr EXCEPT ![p] = FALSE]
               ELSE \E o \in FindOne("email", key) :
                    /\ Finish(p, rq, GetUserByEmail(o),
                              GetUserByEmailResponse(GetUserByEmail(o)))
                    /\ calls' = [calls EXCEPT ![p] = 1]
                    /\ storeErr' = [storeErr EXCEPT ![p] = o.err = ErrStore]
    /\ local' = [local EXCEPT ![p] = NoLocal]
    /\ UNCHANGED <<collection, inserted, now>>

\* ---- GET /users/search of routes.SetupRoutes ----------------------------

\* a dispatch that looks at the email parameter first
SearchRoute_EmailFirst(userID, email) ==
    IF email # "" THEN "email" ELSE IF userID # "" THEN "user_id" ELSE "none"

\* the lookup getUserSearchHandler hands the request to
SearchRoute(userID, email) ==
    IF userID # "" THEN "user_id" ELSE IF email # "" THEN "email" ELSE "none"

\* a query parameter that is not given reads as the empty string
getUserSearchHandler(p, In) ==
    /\ Ready(p)
    /\ \E userID \in In.userIDs \cup {""}, email \in In.emails \cup {""} :
        LET rq == [op |-> "getUserSearchHandler", entry |-> "http",
                   user_id |-> userID, email |-> email]
            route == SearchRoute(userID, email)
        IN  /\ req' = [req EXCEPT ![p] = rq]
            /\ IF route = "user_id"
               THEN IF userID = ""
                    THEN /\ Reject(p, ErrorResponse(StatusBadRequest,
                                           "user_id query parameter is required"))
                         /\ calls' = [calls EXCEPT ![p] = 0]
                         /\ storeErr' = [storeErr EXCEPT ![p] = FALSE]
                    ELSE \E o \in FindOne("user_id", userID) :
                         /\ Finish(p, rq, GetUserByUserID(o),
                                   GetUserByUserIDResponse(GetUserByUserID(o)))
                         /\ calls' = [calls EXCEPT ![p] = 1]
                         /\ storeErr' = [storeErr EXCEPT ![p] = o.err = ErrStore]
               ELSE IF route = "email"
               THEN IF email = ""
                    THEN /\ Reject(p, ErrorResponse(StatusBadRequest,
                                           "email query parameter is required"))
                         /\ calls' = [calls EXCEPT ![p] = 0]
                         /\ storeErr' = [storeErr EXCEPT ![p] = FALSE]
                    ELSE \E o \in FindOne("email", email) :
                         /\ Finish(p, rq, GetUserByEmail(o),
                                   GetUserByEmailResponse(GetUserByEmail(o)))
                         /\ calls' = [calls EXCEPT ![p] = 1]
                         /\ storeErr' = [storeErr EXCEPT ![p] = o.err = ErrStore]
               ELSE /\ Reject(p, ErrorResponse(StatusBadRequest,
                          "Missing search parameter: user_id or email is required"))
                    /\ calls' = [calls EXCEPT ![p] = 0]
                    /\ storeErr' = [storeErr EXCEPT ![p] = FALSE]
    /\ local' = [local EXCEPT ![p] = NoLocal]
    /\ UNCHANGED <<collection, inserted, now>>

\* ---- GET /users, UserService.ListUsers ----------------------------------

ListUsers(p, In) ==
    /\ Ready(p)
    /\ \E entry \in In.entries, o \in Find :
        LET rq == [op |-> "ListUsers", entry |-> entry]
        IN  /\ req' = [req EXCEPT ![p] = rq]
            /\ Finish(p, rq, ListUsersResult(o), ListUsersResponse(ListUsersResult(o)))
            /\ calls' = [calls EXCEPT ![p] = 1]
            /\ storeErr' = [storeErr EXCEPT ![p] = o.err = ErrStore]
    /\ local' = [local EXCEPT ![p] = NoLocal]
    /\ UNCHANGED <<collection, inserted, now>>

\* ---- time passes: a later time.Now() reads a later instant ---------------
\* "now" is the reading of time.Now() as a stored date keeps it; requests
\* that read the clock without a Tick between them read the same instant

Tick ==
    /\ Quiet
    /\ now < MaxClock
    /\ now' = now + 1
    /\ UNCHANGED <<collection, inserted, pc, req, local, ret, resp, calls, storeErr>>

\* ---- the response is sent, the request is over --------------------------

Reply(p) ==
    /\ pc[p] = "done"
    /\ pc' = [pc EXCEPT ![p] = "idle"]
    /\ req' = [req EXCEPT ![p] = NoReq]
    /\ local' = [local EXCEPT ![p] = NoLocal]
    /\ ret' = [ret EXCEPT ![p] = NoRet]
    /\ resp' = [resp EXCEPT ![p] = NoResp]
    /\ calls' = [calls EXCEPT ![p] = 0]
    /\ storeErr' = [storeErr EXCEPT ![p] = FALSE]
    /\ UNCHANGED <<collection, inserted, now>>

\* ------------------------------------------------------------------------
\* Inputs and specifications
\* ------------------------------------------------------------------------

Secret1 == <<"s", "e", "c", "r", "e", "t", "1">>
Secret2 == <<"h", "u", "n", "t", "e", "r", "2">>
LongPassword == Rep("x", 73)

\* identifiers of the documents the collection may come to hold
StoredIds == {Hex(NewObjectID(n)) : n \in 1..MaxInserts}
\* a well-formed identifier no document ever has
AbsentId == Hex(NewObjectID(0))
\* strings that are not 24 hexadecimal digits
MalformedIds == {<<"1", "2", "3">>,
                 Hex(NewObjectID(1)) \o <<"z">>,
                 <<"i", "n", "v", "a", "l", "i", "d", "-", "i", "d">>}

\* requests that interleave: well-formed requests through the handlers
Concurrent ==
    [entries   |-> {"http"},
     binds     |-> {TRUE},
     ids       |-> {Hex(NewObjectID(1))},
     targets   |-> {Hex(NewObjectID(1))},
     userIDs   |-> {"alice", "bob"},
     emails    |-> {"a@x.com", "b@x.com"},
     passwords |-> {Secret1},
     newPasswords |-> {},
     modifiedCount |-> FALSE]

\* requests handled one at a time: through the handlers or by a direct call
\* of the service, with well-formed and malformed identifiers and bodies
Sequential ==
    [entries   |-> {"http", "svc"},
     binds     |-> {TRUE, FALSE},
     ids       |-> StoredIds \cup {AbsentId, ToUpper(Hex(NewObjectID(1))), <<>>}
                   \cup MalformedIds,
     targets   |-> StoredIds \cup {AbsentId, ToUpper(Hex(NewObjectID(1)))},
     userIDs   |-> {"alice", "bob"},
     emails    |-> {"a@x.com", "b@x.com"},
     passwords |-> {Secret1, LongPassword},
     newPasswords |-> {Secret1, LongPassword},
     modifiedCount |-> TRUE]

\* requests handled one at a time through the handlers, with missing and
\* empty fields
Boundary ==
    [entries   |-> {"http"},
     binds     |-> {TRUE},
     ids       |-> {Hex(NewObjectID(1))},
     targets   |-> {Hex(NewObjectID(1))},
     userIDs   |-> {"", "alice"},
     emails    |-> {"", "a@x.com"},
     passwords |-> {<<>>, Secret1},
     newPasswords |-> {<<>>},
     modifiedCount |-> TRUE]

\* requests that interleave while the clock advances
Timed ==
    [entries   |-> {"http"},
     binds     |-> {TRUE},
     ids       |-> {Hex(NewObjectID(1))},
     targets   |-> {Hex(NewObjectID(1))},
     userIDs   |-> {"alice"},
     emails    |-> {"a@x.com"},
     passwords |-> {Secret1},
     newPasswords |-> {},
     modifiedCount |-> FALSE]

Step(p, In) ==
    \/ CreateUser_Begin(p, In)
    \/ CreateUser_FindUserID(p)
    \/ CreateUser_FindEmail(p)
    \/ CreateUser_InsertOne(p)
    \/ UpdateUser_Begin(p, In)
    \/ UpdateUser_FindUserID(p)
    \/ UpdateUser_FindEmail(p)
    \/ UpdateUser_UpdateOne(p, In)
    \/ UpdateUser_GetUserByID(p)
    \/ GetUser(p, In)
    \/ DeleteUser(p, In)
    \/ ListUsers(p, In)
    \/ Reply(p)

\* concurrent requests
Next == \E p \in Procs : Step(p, Concurrent)

Spec == Init /\ [][Next]_vars

\* every route: the steps above, the two searches and the combined search
StepAll(p, In) ==
    \/ Step(p, In)
    \/ GetUserByUserID_Search(p, In)
    \/ GetUserByEmail_Search(p, In)
    \/ getUserSearchHandler(p, In)

\* one request at a time
NextSeq == StepAll("r1", Sequential)

SpecSeq == Init /\ [][NextSeq]_vars

\* one request at a time, with missing and empty fields
NextEdge == StepAll("r1", Boundary)

SpecEdge == Init /\ [][NextEdge]_vars

\* concurrent requests under an advancing clock
NextClock == Tick \/ \E p \in Procs : Step(p, Timed)

SpecClock == Init /\ [][NextClock]_vars

\* ------------------------------------------------------------------------
\* Properties
\* ------------------------------------------------------------------------

\* a string of exactly 24 hexadecimal digits
WellFormedId(s) ==
    /\ Len(s) = 24
    /\ \A i \in 1..24 :
         s[i] \in {"0", "1", "2", "3", "4", "5", "6", "7", "8", "9",
                   "a", "b", "c", "d", "e", "f", "A", "B", "C", "D", "E", "F"}

Done(p, op) == pc[p] = "done" /\ req[p].op = op

\* the handler (or the direct caller) has called the service method
CreateInvoked(p) ==
    /\ Done(p, "CreateUser")
    /\ req[p].bind
    /\ \/ req[p].entry = "svc"
       \/ req[p].user_id # "" /\ req[p].email # "" /\ req[p].password # <<>>

ById(p) == req[p].op \in {"GetUser", "UpdateUser", "DeleteUser"}

ByIdInvoked(p) ==
    /\ pc[p] = "done"
    /\ ById(p)
    /\ req[p].op = "UpdateUser" => req[p].bind
    /\ req[p].entry = "svc" \/ req[p].id # <<>>

\* C1: no two stored users have the same user_id, in every reachable state
\* of the collection under interleaved Create, Update and Delete requests.
C1_UserIDUnique ==
    \A a \in collection, b \in collection : a.user_id = b.user_id => a = b

\* C2: no two stored users have the same email, in every reachable state of
\* the collection under interleaved Create, Update and Delete requests.
C2_EmailUnique ==
    \A a \in collection, b \in collection : a.email = b.email => a = b

\* C3: a Create that passed both uniqueness pre-checks (no store call of it
\* failed) and finds, when it inserts, that a user with its user_id has been
\* stored in the meantime still inserts: unless the InsertOne call itself
\* fails the Create succeeds and two stored users share the user_id.
C3_RaceInsertsDuplicate ==
    [][\A p \in Procs :
         (/\ pc[p] = "CreateUser:insertOne"
          /\ ~storeErr[p]
          /\ \E d \in collection : d.user_id = req[p].user_id
          /\ pc'[p] = "done"
          /\ ~storeErr'[p])
         => /\ ret'[p].err = ""
            /\ Val(ret'[p].user) \in collection'
            /\ \E d \in collection' :
                 /\ d.user_id = req[p].user_id
                 /\ d.id # Val(ret'[p].user).id]_vars

\* two users with the same user_id are stored, the second by a Create none
\* of whose store calls failed
C3_Witness ==
    \E p \in Procs :
        /\ Done(p, "CreateUser")
        /\ ~storeErr[p]
        /\ calls[p] = 3
        /\ ret[p].err = ""
        /\ Val(ret[p].user) \in collection
        /\ \E d \in collection :
             d.user_id = req[p].user_id /\ d.id # Val(ret[p].user).id

\* the user_id and the email of the request are held by no stored user
\* other than the one the Create returned
C4_Unused(p) ==
    \A d \in collection :
        (d.user_id = req[p].user_id \/ d.email = req[p].email)
        => ~IsNil(ret[p].user) /\ d.id = Val(ret[p].user).id

C4_Succeeded(p) ==
    /\ ret[p].err = ""
    /\ ~IsNil(ret[p].user)
    /\ Val(ret[p].user) \in collection
    /\ Val(ret[p].user).user_id = req[p].user_id
    /\ Val(ret[p].user).email = req[p].email
    /\ Val(ret[p].user).password # req[p].password
    /\ CheckPassword(Val(ret[p].user), req[p].password)

\* the InsertOne step of a Create adds exactly the returned record when the
\* Create succeeds, and nothing otherwise
C4_OneRecordAdded ==
    \A p \in Procs :
        (pc[p] = "CreateUser:insertOne" /\ pc'[p] = "done")
        => IF ret'[p].err = ""
           THEN /\ Val(ret'[p].user) \notin collection
                /\ collection' = collection \cup {Val(ret'[p].user)}
                /\ Cardinality(collection') = Cardinality(collection) + 1
           ELSE collection' = collection

\* C4 (as stated): every Create whose user_id and email are unused, with no
\* concurrent request and no failing store call, succeeds, adds exactly one
\* record, returns the request's user_id and email and a password value
\* that differs from the plaintext and that CheckPassword accepts.
C4_Original ==
    /\ [](\A p \in Procs :
            (CreateInvoked(p) /\ ~storeErr[p] /\ C4_Unused(p)) => C4_Succeeded(p))
    /\ [][C4_OneRecordAdded]_vars

\* C4 (amended): the same for every Create whose password is at most 72
\* bytes long, the longest password the hash accepts.
C4_CreateSucceeds ==
    /\ [](\A p \in Procs :
            (/\ CreateInvoked(p)
             /\ ~storeErr[p]
             /\ C4_Unused(p)
             /\ Len(req[p].password) <= 72) => C4_Succeeded(p))
    /\ [][C4_OneRecordAdded]_vars

C4_Witness ==
    \E p \in Procs :
        /\ CreateInvoked(p)
        /\ ~storeErr[p]
        /\ C4_Unused(p)
        /\ C4_Succeeded(p)
        /\ Cardinality(collection) = 2

\* C5: every Create whose user_id is the user_id of a stored user fails with
\* "user with this user_id already exists", whatever its email, and leaves
\* the collection unchanged (no record is returned or added).
C5_UserIDConflict ==
    \A p \in Procs :
        (/\ CreateInvoked(p)
         /\ \E d \in collection :
              /\ d.user_id = req[p].user_id
              /\ IsNil(ret[p].user) \/ d.id # Val(ret[p].user).id)
        => ret[p].err = ErrUserIDExists /\ IsNil(ret[p].user)

\* C6: every Create whose user_id is unused but whose email is the email of
\* a stored user fails with "user with this email already exists" and
\* leaves the collection unchanged (no record is returned or added).
C6_EmailConflict ==
    \A p \in Procs :
        (/\ CreateInvoked(p)
         /\ \A d \in collection :
              d.user_id = req[p].user_id
              => ~IsNil(ret[p].user) /\ d.id = Val(ret[p].user).id
         /\ \E d \in collection :
              /\ d.email = req[p].email
              /\ IsNil(ret[p].user) \/ d.id # Val(ret[p].user).id)
        => ret[p].err = ErrEmailExists /\ IsNil(ret[p].user)

\* C7: once a store call of a request has failed the request is over and
\* has returned an error: it issues no later store call.
C7_FailureEndsRequest ==
    \A p \in Procs :
        storeErr[p] => pc[p] = "done" /\ ret[p].err # ""

\* C8: GetByID, Update and Delete called with an id that is not 24
\* hexadecimal digits (the empty string included) fail with "invalid user
\* ID", issue no store call and leave the collection unchanged.
C8_MalformedIdRejected ==
    /\ [](\A p \in Procs :
            (ByIdInvoked(p) /\ ~WellFormedId(req[p].id))
            => /\ ret[p].err = ErrInvalidUserID
               /\ IsNil(ret[p].user)
               /\ calls[p] = 0)
    /\ [][\A p \in Procs :
            (pc[p] = "idle" /\ pc'[p] # "idle" /\ req'[p].op \in {"GetUser", "UpdateUser", "DeleteUser"}
             /\ ~WellFormedId(req'[p].id))
            => pc'[p] = "done" /\ collection' = collection]_vars

\* a direct call with the empty string has returned "invalid user ID"
C8_Witness ==
    \E p \in Procs :
        /\ ByIdInvoked(p)
        /\ req[p].op = "DeleteUser"
        /\ req[p].id = <<>>
        /\ ret[p].err = ErrInvalidUserID
        /\ calls[p] = 0
        /\ collection # {}

\* C9: GET, PUT and DELETE /users/{id} with a non-empty id that is not a
\* well-formed identifier are answered with status 400.
C9_MalformedIdIs400 ==
    \A p \in Procs :
        (/\ ByIdInvoked(p)
         /\ req[p].entry = "http"
         /\ req[p].id # <<>>
         /\ ~WellFormedId(req[p].id))
        => resp[p].status = StatusBadRequest

\* C10: the Create and Update handlers answer 409 only for a user_id or
\* email collision; a failed hashing, insert, update write or lookup is
\* answered with 500 and the message in the "error" field.
C10_OnlyCollisionsAre409 ==
    \A p \in Procs :
        (/\ pc[p] = "done"
         /\ req[p].op \in {"CreateUser", "UpdateUser"}
         /\ req[p].entry = "http")
        => /\ resp[p].status = StatusConflict
              => ret[p].err \in {ErrUserIDExists, ErrEmailExists}
           /\ ret[p].err \in {ErrHashPassword, ErrCreateUser, ErrUpdateUser, ErrGetUser}
              => /\ resp[p].status = StatusInternalServerError
                 /\ Val(resp[p].body) = [error |-> ret[p].err]

\* the bound body of a Create lacks one of its three required fields
C11_Missing(rq) ==
    rq.user_id = "" \/ rq.email = "" \/ rq.password = <<>>

\* C11: the Create handler answers 400 to every request whose body lacks
\* user_id, email or password or has one of them empty; it does so without
\* calling the service: no store call is made and the collection is left
\* unchanged.
C11_MissingFieldIs400 ==
    /\ [](\A p \in Procs :
            (/\ Done(p, "CreateUser")
             /\ req[p].entry = "http"
             /\ req[p].bind
             /\ C11_Missing(req[p]))
            => /\ resp[p].status = StatusBadRequest
               /\ ret[p] = NoRet
               /\ local[p] = NoLocal
               /\ calls[p] = 0)
    /\ [][\A p \in Procs :
            (/\ pc[p] = "idle"
             /\ pc'[p] # "idle"
             /\ req'[p].op = "CreateUser"
             /\ req'[p].entry = "http"
             /\ req'[p].bind
             /\ C11_Missing(req'[p]))
            => pc'[p] = "done" /\ collection' = collection]_vars

\* a Create with user_id and email but an empty password has been answered
\* 400 while a user is stored
C11_Witness ==
    \E p \in Procs :
        /\ Done(p, "CreateUser")
        /\ req[p].entry = "http"
        /\ req[p].user_id # ""
        /\ req[p].email # ""
        /\ req[p].password = <<>>
        /\ resp[p].status = StatusBadRequest
        /\ calls[p] = 0
        /\ collection # {}

\* no stored user has the identifier the string s denotes
C12_Absent(s) ==
    \A d \in collection : ToUpper(Hex(d.id)) # ToUpper(s)

\* C12: GetByID with a well-formed identifier that matches no stored user
\* fails with 'user not found', which the handler answers with 404; it never
\* returns a user and never changes the collection.  (When the FindOne call
\* itself fails the outcome is 'failed to get user', answered with 500.)
C12_AbsentIdNotFound ==
    /\ [](\A p \in Procs :
            (/\ Done(p, "GetUser")
             /\ ByIdInvoked(p)
             /\ WellFormedId(req[p].id)
             /\ C12_Absent(req[p].id))
            => /\ IsNil(ret[p].user)
               /\ calls[p] = 1
               /\ IF storeErr[p]
                  THEN /\ ret[p].err = ErrGetUser
                       /\ req[p].entry = "http"
                          => resp[p].status = StatusInternalServerError
                  ELSE /\ ret[p].err = ErrUserNotFound
                       /\ req[p].entry = "http"
                          => resp[p].status = StatusNotFound)
    /\ [][\A p \in Procs :
            (pc[p] = "idle" /\ pc'[p] # "idle" /\ req'[p].op = "GetUser")
            => pc'[p] = "done" /\ collection' = collection]_vars

\* GET /users/{id} with a well-formed identifier no stored user has was
\* answered 404 while a user is stored
C12_Witness ==
    \E p \in Procs :
        /\ Done(p, "GetUser")
        /\ req[p].entry = "http"
        /\ WellFormedId(req[p].id)
        /\ C12_Absent(req[p].id)
        /\ collection # {}
        /\ ret[p].err = ErrUserNotFound
        /\ resp[p].status = StatusNotFound

\* the stored users a search request's key matches exactly
C13_Matches(rq) ==
    {d \in collection :
       IF rq.op = "GetUserByUserID" THEN d.user_id = rq.key ELSE d.email = rq.key}

\* C13: GetByNaturalKey and GetByEmail return a null result with no error
\* when no stored user matches exactly and a matching user when one exists;
\* the search handlers answer a null result with 404 and a store error with
\* 500.  Neither changes the collection.
C13_SearchResults ==
    /\ [](\A p \in Procs :
            (/\ pc[p] = "done"
             /\ req[p].op \in {"GetUserByUserID", "GetUserByEmail"}
             /\ req[p].entry = "svc" \/ req[p].key # "")
            => IF storeErr[p]
               THEN /\ ret[p] = [user |-> Nil, users |-> Nil, err |-> ErrGetUser]
                    /\ req[p].entry = "http"
                       => resp[p].status = StatusInternalServerError
               ELSE IF C13_Matches(req[p]) = {}
               THEN /\ ret[p] = [user |-> Nil, users |-> Nil, err |-> ""]
                    /\ req[p].entry = "http" => resp[p].status = StatusNotFound
               ELSE /\ ret[p].err = ""
                    /\ ~IsNil(ret[p].user)
                    /\ Val(ret[p].user) \in C13_Matches(req[p])
                    /\ req[p].entry = "http"
                       => /\ resp[p].status = StatusOK
                          /\ Val(resp[p].body).id = Hex(Val(ret[p].user).id))
    /\ [][\A p \in Procs :
            (/\ pc[p] = "idle"
             /\ pc'[p] # "idle"
             /\ req'[p].op \in {"GetUserByUserID", "GetUserByEmail"})
            => pc'[p] = "done" /\ collection' = collection]_vars

\* a search by user_id that matches no stored user returned null without an
\* error and was answered 404, while a user with another user_id is stored
C13_Witness ==
    \E p \in Procs :
        /\ Done(p, "GetUserByUserID")
        /\ req[p].entry = "http"
        /\ collection # {}
        /\ C13_Matches(req[p]) = {}
        /\ ~storeErr[p]
        /\ IsNil(ret[p].user)
        /\ ret[p].err = ""
        /\ resp[p].status = StatusNotFound

\* the request in slot p takes a step
C14_Steps(p) == pc'[p] # pc[p]

\* C14: a successful Update leaves unchanged, in the target record, every
\* one of user_id, email and password hash that is absent from the request,
\* and leaves every other record of the collection entirely unchanged: the
\* write of an Update changes no other record and no absent field, adds and
\* removes no record, and no other step of an Update changes the collection.
C14_UpdateFrame ==
    [][\A p \in Procs :
         (/\ req[p].op = "UpdateUser"
          /\ pc[p] \notin {"idle", "done"}
          /\ C14_Steps(p))
         => IF pc[p] = "UpdateUser:updateOne"
            THEN /\ Cardinality(collection') = Cardinality(collection)
                 /\ \A d \in collection :
                      IF d.id = Val(local[p].objectID)
                      THEN \E e \in collection' :
                             /\ e.id = d.id
                             /\ e.created_at = d.created_at
                             /\ IsNil(req[p].user_id) => e.user_id = d.user_id
                             /\ IsNil(req[p].email) => e.email = d.email
                             /\ IsNil(req[p].password) => e.password = d.password
                      ELSE d \in collection'
            ELSE collection' = collection]_vars

\* an Update that gave only a user_id has succeeded: the target has the new
\* user_id, and a second record is stored
C14_Witness ==
    \E p \in Procs :
        /\ Done(p, "UpdateUser")
        /\ ret[p].err = ""
        /\ ~IsNil(req[p].user_id)
        /\ IsNil(req[p].email)
        /\ IsNil(req[p].password)
        /\ Val(ret[p].user).user_id = Val(req[p].user_id)
        /\ Val(ret[p].user) \in collection
        /\ Cardinality(collection) = 2

\* C15: after every successful Update of a record the record's stored
\* updated_at is strictly greater than it was before the Update, also when
\* two Updates read the clock at the same instant or write in the opposite
\* order of their clock reads: every write of an Update that succeeds on a
\* stored record raises the record's updated_at.
C15_UpdatedAtAdvances ==
    [][\A p \in Procs :
         (/\ pc[p] = "UpdateUser:updateOne"
          /\ pc'[p] = "UpdateUser:getUserByID")
         => \A d \in collection :
              d.id = Val(local[p].objectID)
              => \E e \in collection' :
                   e.id = d.id /\ e.updated_at > d.updated_at]_vars

\* the user stored under the identifier the string s denotes, if any
C16_Stored(s) ==
    {d \in collection : ToUpper(Hex(d.id)) = ToUpper(s)}

\* the request in slot p gives, for the field, a value that a stored record
\* other than its target holds
C16_HeldByOther(p, field) ==
    /\ ~IsNil(req[p][field])
    /\ \E d \in collection \ C16_Stored(req[p].id) : d[field] = Val(req[p][field])

\* C16: an Update of a stored record A with a user_id (or email) that a
\* different stored record B holds fails with the Conflict outcome naming
\* that field and performs no write, also when another field of the same
\* request passed its own uniqueness check.
C16_UpdateConflict ==
    \A p \in Procs :
        (/\ Done(p, "UpdateUser")
         /\ ByIdInvoked(p)
         /\ WellFormedId(req[p].id)
         /\ C16_Stored(req[p].id) # {}
         /\ C16_HeldByOther(p, "user_id") \/ C16_HeldByOther(p, "email"))
        => /\ IsNil(ret[p].user)
           /\ ret[p].err = IF C16_HeldByOther(p, "user_id")
                           THEN ErrUserIDExists
                           ELSE ErrEmailExists
           /\ calls[p] <= 2

\* the request in slot p gives no value for the field, or the value that
\* the stored record d holds and no other stored record does
C17_Own(p, d, field) ==
    \/ IsNil(req[p][field])
    \/ /\ d[field] = Val(req[p][field])
       /\ \A e \in collection \ {d} : e[field] # Val(req[p][field])

\* the target of the Update in slot p, when that Update gives only the
\* target's own current user_id and/or email
C17_OwnTarget(p) ==
    {d \in collection :
       /\ d.id = Val(local[p].objectID)
       /\ ~IsNil(req[p].user_id) \/ ~IsNil(req[p].email)
       /\ IsNil(req[p].password)
       /\ C17_Own(p, d, "user_id")
       /\ C17_Own(p, d, "email")}

\* C17: an Update of a stored record with a user_id and/or email equal to
\* that record's own current values (which no other record holds) succeeds, the uniqueness check excluding
\* the record's own identifier, and leaves those values as they were: no
\* step of it reports a conflict or changes them, and it ends with the
\* record returned (200), or with the error of a failed UpdateOne or
\* re-fetch call.
C17_OwnValuesAccepted ==
    [][\A p \in Procs :
         (/\ req[p].op = "UpdateUser"
          /\ pc[p] \notin {"idle", "done"}
          /\ pc'[p] # pc[p])
         => \A d \in C17_OwnTarget(p) :
              /\ \E e \in collection' :
                   e.id = d.id /\ e.user_id = d.user_id /\ e.email = d.email
              /\ pc'[p] = "done"
                 => IF ret'[p].err # ""
                    THEN /\ storeErr'[p]
                         /\ ret'[p].err \in {ErrUpdateUser, ErrGetUser}
                    ELSE /\ Val(ret'[p].user) \in collection'
                         /\ Val(ret'[p].user).id = d.id
                         /\ Val(ret'[p].user).user_id = d.user_id
                         /\ Val(ret'[p].user).email = d.email
                         /\ req[p].entry = "http" => resp'[p].status = StatusOK]_vars

\* an Update that gives the user_id and the email its target holds has
\* passed both uniqueness lookups, each of which found the target itself,
\* and is about to write
C17_Witness ==
    \E p \in Procs :
        /\ pc[p] = "UpdateUser:updateOne"
        /\ ~IsNil(req[p].user_id)
        /\ ~IsNil(req[p].email)
        /\ C17_OwnTarget(p) # {}
        /\ calls[p] = 2
        /\ ~storeErr[p]
        /\ Cardinality(collection) = 2

\* the entity returned has the request's value for each of user_id and email
\* that the request gives
C18_AsRequested(rq, u) ==
    /\ ~IsNil(rq.user_id) => u.user_id = Val(rq.user_id)
    /\ ~IsNil(rq.email) => u.email = Val(rq.email)

\* C18 as stated: whenever Update succeeds, the entity it returns has, for
\* each of user_id and email present in the request, exactly the value given
\* in the request, also when other Update or Delete requests on the same
\* record run between its write and its re-fetch.
C18_Original ==
    \A p \in Procs :
        (Done(p, "UpdateUser") /\ ret[p].err = "")
        => C18_AsRequested(req[p], Val(ret[p].user))

\* C18, amended: the write of an Update gives the target record the
\* request's user_id and email, and a successful Update returns the record
\* as it is stored under the target identifier when it is fetched again; so
\* the entity returned has the request's values unless another request
\* changed the record between the write and the re-fetch.
C18_ReturnsStoredRecord ==
    [][\A p \in Procs :
         /\ (pc[p] = "UpdateUser:updateOne" /\ pc'[p] = "UpdateUser:getUserByID")
            => \A e \in collection' :
                 e.id = Val(local[p].objectID) => C18_AsRequested(req[p], e)
         /\ (pc[p] = "UpdateUser:getUserByID" /\ pc'[p] = "done" /\ ret'[p].err = "")
            => /\ Val(ret'[p].user) \in collection
               /\ Val(ret'[p].user).id = Val(local[p].objectID)
               /\ resp'[p].status = StatusOK
               /\ Val(resp'[p].body).user_id = Val(ret'[p].user).user_id
               /\ Val(resp'[p].body).email = Val(ret'[p].user).email]_vars

\* an Update that gave a user_id and an email has returned the stored record
\* with both values while another Update of the same record is under way
C18_Witness ==
    \E p \in Procs, q \in Procs :
        /\ Done(p, "UpdateUser")
        /\ ret[p].err = ""
        /\ ~IsNil(req[p].user_id)
        /\ ~IsNil(req[p].email)
        /\ C18_AsRequested(req[p], Val(ret[p].user))
        /\ Val(ret[p].user) \in collection
        /\ q # p
        /\ req[q].op = "UpdateUser"
        /\ req[q].id = req[p].id

\* the request in slot p has none of user_id, email and password present
C19_NoFields(p) ==
    IsNil(req[p].user_id) /\ IsNil(req[p].email) /\ IsNil(req[p].password)

\* C19: an Update of a stored record whose request has none of user_id,
\* email and password present succeeds (HTTP 200), changes only that
\* record's updated_at, and changes no other field of any record: its write
\* replaces the target by the same record with updated_at set to the clock
\* reading of the request and leaves the rest of the collection alone, and
\* its re-fetch of a record that is stored returns that record with 200
\* unless the FindOne call itself fails.
C19_EmptyUpdateTouchesUpdatedAt ==
    [][\A p \in Procs :
         (/\ req[p].op = "UpdateUser"
          /\ pc[p] \notin {"idle", "done"}
          /\ pc'[p] # pc[p]
          /\ C19_NoFields(p))
         => /\ pc[p] \in {"UpdateUser:updateOne", "UpdateUser:getUserByID"}
            /\ pc[p] = "UpdateUser:updateOne"
               => /\ pc'[p] = "UpdateUser:getUserByID" \/ storeErr'[p]
                  /\ \A d \in collection :
                       IF d.id = Val(local[p].objectID) /\ ~storeErr'[p]
                       THEN /\ [d EXCEPT !.updated_at =
                                  Val(local[p].updateFields)["updated_at"]]
                                \in collection'
                            /\ Val(local[p].updateFields)["updated_at"] # d.updated_at
                               => d \notin collection'
                       ELSE d \in collection'
                  /\ Cardinality(collection') = Cardinality(collection)
            /\ pc[p] = "UpdateUser:getUserByID"
               => /\ collection' = collection
                  /\ pc'[p] = "done"
                  /\ \A d \in collection :
                       d.id = Val(local[p].objectID)
                       => IF storeErr'[p]
                          THEN ret'[p].err = ErrGetUser
                          ELSE /\ ret'[p] = [user |-> Some(d), users |-> Nil, err |-> ""]
                               /\ resp'[p].status = StatusOK
                               /\ Val(resp'[p].body).updated_at = d.updated_at]_vars

\* an Update with no field present has been answered 200 with a record
\* whose updated_at is later than its created_at
C19_Witness ==
    \E p \in Procs :
        /\ Done(p, "UpdateUser")
        /\ C19_NoFields(p)
        /\ ret[p].err = ""
        /\ resp[p].status = StatusOK
        /\ Val(ret[p].user) \in collection
        /\ Val(ret[p].user).updated_at > Val(ret[p].user).created_at

\* C20: Delete with a well-formed identifier that matches no stored user
\* fails with 'user not found' (HTTP 404) and leaves the collection
\* unchanged.  (When the DeleteOne call itself fails the outcome is 'failed
\* to delete user', answered with 500, and the collection is unchanged too.)
C20_DeleteAbsentNotFound ==
    [][\A p \in Procs :
         (/\ pc[p] = "idle"
          /\ pc'[p] # "idle"
          /\ req'[p].op = "DeleteUser"
          /\ WellFormedId(req'[p].id)
          /\ C12_Absent(req'[p].id))
         => /\ pc'[p] = "done"
            /\ collection' = collection
            /\ calls'[p] = 1
            /\ IsNil(ret'[p].user)
            /\ IF storeErr'[p]
               THEN /\ ret'[p].err = ErrDeleteUser
                    /\ req'[p].entry = "http"
                       => resp'[p].status = StatusInternalServerError
               ELSE /\ ret'[p].err = ErrUserNotFound
                    /\ req'[p].entry = "http"
                       => resp'[p].status = StatusNotFound]_vars

\* DELETE /users/{id} with a well-formed identifier no stored user has was
\* answered 404, and the two stored users are still there
C20_Witness ==
    \E p \in Procs :
        /\ Done(p, "DeleteUser")
        /\ req[p].entry = "http"
        /\ WellFormedId(req[p].id)
        /\ C12_Absent(req[p].id)
        /\ ret[p].err = ErrUserNotFound
        /\ resp[p].status = StatusNotFound
        /\ Cardinality(collection) = 2

\* the identifiers that have been assigned to a record and are stored no more
C21_Deleted ==
    {NewObjectID(n) : n \in 1..inserted} \ {d.id : d \in collection}

\* C21: Delete with the identifier of a stored user succeeds, removes that
\* record and no other (the collection shrinks by exactly one, every other
\* record is unchanged), and a GetByID on the same identifier issued
\* afterwards fails with NotFound.  (A DeleteOne call that itself fails is
\* reported as 'failed to delete user' and removes nothing; a FindOne call
\* that itself fails is reported as 'failed to get user'.)
C21_DeleteRemovesOne ==
    /\ [][\A p \in Procs :
            (/\ pc[p] = "idle"
             /\ pc'[p] # "idle"
             /\ req'[p].op = "DeleteUser"
             /\ WellFormedId(req'[p].id))
            => \A d \in C16_Stored(req'[p].id) :
                 IF storeErr'[p]
                 THEN /\ ret'[p].err = ErrDeleteUser
                      /\ collection' = collection
                 ELSE /\ ret'[p].err = ""
                      /\ req'[p].entry = "http" => resp'[p].status = StatusOK
                      /\ collection' = collection \ {d}
                      /\ Cardinality(collection') = Cardinality(collection) - 1
                      /\ d.id \in C21_Deleted']_vars
    /\ [](\A p \in Procs :
            (/\ Done(p, "GetUser")
             /\ WellFormedId(req[p].id)
             /\ \E i \in C21_Deleted : ToUpper(Hex(i)) = ToUpper(req[p].id))
            => /\ IsNil(ret[p].user)
               /\ IF storeErr[p]
                  THEN ret[p].err = ErrGetUser
                  ELSE /\ ret[p].err = ErrUserNotFound
                       /\ req[p].entry = "http" => resp[p].status = StatusNotFound)

\* a GET of an identifier that was deleted is answered 404 while another
\* user is still stored
C21_Witness ==
    \E p \in Procs :
        /\ Done(p, "GetUser")
        /\ req[p].entry = "http"
        /\ \E i \in C21_Deleted : Hex(i) = req[p].id
        /\ resp[p].status = StatusNotFound
        /\ Cardinality(collection) = 1
        /\ inserted = 2

\* the entities of a list value: none when it is nil (JSON null)
C22_Entities(l) == IF IsNil(l) THEN {} ELSE Val(l)

C22_WitnessEmpty ==
    \E p \in Procs :
        /\ Done(p, "ListUsers")
        /\ req[p].entry = "http"
        /\ resp[p].status = StatusOK
        /\ collection = {}
        /\ Val(resp[p].body).count = 0
        /\ C22_Entities(Val(resp[p].body).users) = {}

\* the answer of a lookup by the field with the key, in slot p
C23_AnswerOf(p, field, key) ==
    LET matches == {d \in collection : d[field] = key}
    IN  /\ calls[p] = 1
        /\ IF storeErr[p]
           THEN /\ resp[p].status = StatusInternalServerError
                /\ ret[p].err = ErrGetUser
           ELSE IF matches = {}
           THEN /\ resp[p].status = StatusNotFound
                /\ IsNil(ret[p].user)
           ELSE /\ resp[p].status = StatusOK
                /\ Val(ret[p].user) \in matches
                /\ Val(resp[p].body).id = Hex(Val(ret[p].user).id)

\* C23: the single /users/search endpoint dispatches on which query
\* parameter is non-empty: a non-empty user_id always goes to the lookup by
\* user_id (also when an email is given too), otherwise a non-empty email
\* goes to the lookup by email, and when neither is non-empty the answer is
\* 400 and no lookup is called.
C23_SearchDispatch ==
    \A p \in Procs :
        Done(p, "getUserSearchHandler")
        => IF req[p].user_id # ""
           THEN C23_AnswerOf(p, "user_id", req[p].user_id)
           ELSE IF req[p].email # ""
           THEN C23_AnswerOf(p, "email", req[p].email)
           ELSE /\ resp[p].status = StatusBadRequest
                /\ ret[p] = NoRet
                /\ calls[p] = 0

\* a search with a user_id no stored user has and the email of a stored user
\* was answered 404: the lookup by user_id was the one called
C23_Witness ==
    \E p \in Procs :
        /\ Done(p, "getUserSearchHandler")
        /\ req[p].user_id # ""
        /\ req[p].email # ""
        /\ \A d \in collection : d.user_id # req[p].user_id
        /\ \E d \in collection : d.email = req[p].email
        /\ ~storeErr[p]
        /\ resp[p].status = StatusNotFound

\* C24: every record keeps, from its Create until its Delete, the id and the
\* created_at it was given at creation: no step of any request changes
\* either (whatever the fields of an Update), and Create never gives a
\* record an id that a stored record holds, so no two stored records share
\* an id.
C24_IdAndCreatedAtFixed ==
    /\ [](\A a \in collection, b \in collection : a.id = b.id => a = b)
    /\ [][/\ \A d \in collection, e \in collection' :
               e.id = d.id => e.created_at = d.created_at
          /\ \A p \in Procs :
               (pc[p] = "CreateUser:insertOne" /\ pc'[p] = "done" /\ ret'[p].err = "")
               => /\ Val(ret'[p].user).id \notin {d.id : d \in collection}
                  /\ Val(ret'[p].user) \in collection'
                  /\ Val(ret'[p].user).created_at = Val(local[p].user).created_at
                  /\ collection \subseteq collection'
          /\ \A p \in Procs :
               (req[p].op = "UpdateUser" /\ pc'[p] # pc[p])
               => {d.id : d \in collection'} = {d.id : d \in collection}]_vars

\* an Update with a user_id and an email has succeeded on a record created
\* at an earlier instant, next to a second record
C24_Witness ==
    \E p \in Procs :
        /\ Done(p, "UpdateUser")
        /\ ret[p].err = ""
        /\ ~IsNil(req[p].user_id)
        /\ ~IsNil(req[p].email)
        /\ Val(ret[p].user).updated_at > Val(ret[p].user).created_at
        /\ Val(ret[p].user) \in collection
        /\ Cardinality(collection) = 2

\* the passwords the requests of the Boundary inputs supply
C25_Supplied == Boundary.passwords \cup Boundary.newPasswords

\* C25: in every reachable state every stored user's password field is
\* non-empty and is the hash of a password that a Create or Update request
\* supplied, never that password itself; this holds also after an Update
\* whose password field is present but is the empty string, which stores the
\* hash of the empty password.
C25_PasswordIsHash ==
    /\ [](\A d \in collection :
            /\ d.password # <<>>
            /\ \E pw \in C25_Supplied : CheckPassword(d, pw)
            /\ \A pw \in C25_Supplied : d.password # pw)
    /\ [][\A p \in Procs :
            (/\ pc[p] = "UpdateUser:updateOne"
             /\ pc'[p] = "UpdateUser:getUserByID"
             /\ ~IsNil(req[p].password))
            => \A e \in collection' :
                 e.id = Val(local[p].objectID)
                 => /\ CheckPassword(e, Val(req[p].password))
                    /\ e.password # Val(req[p].password)
                    /\ e.password # <<>>]_vars

\* an Update whose password is present and empty has succeeded: the record
\* holds the hash of the empty password and no longer that of the password
\* it was created with
C25_Witness ==
    \E p \in Procs :
        /\ Done(p, "UpdateUser")
        /\ req[p].password = Some(<<>>)
        /\ ret[p].err = ""
        /\ Val(ret[p].user) \in collection
        /\ CheckPassword(Val(ret[p].user), <<>>)
        /\ ~CheckPassword(Val(ret[p].user), Secret1)
        /\ Val(ret[p].user).password # <<>>

\* the fields of a user that a response may show
C26_Public == {"id", "user_id", "email", "created_at", "updated_at"}

\* what the public fields of the user u show
C26_View(u) ==
    [f \in C26_Public |-> IF f = "id" THEN Hex(u.id) ELSE u[f]]

\* the same store with every password hash replaced by another one
C26_Rehash(coll) ==
    {[d EXCEPT !.password = <<"$", "2", "a", "$", "s2", "$", "o", "t", "h", "e", "r">>] :
       d \in coll}

\* the stored users of coll that the read request rq asks for
C26_Asked(coll, rq) ==
    IF rq.op = "GetUser"
    THEN {d \in coll : ToUpper(Hex(d.id)) = ToUpper(rq.id)}
    ELSE IF rq.op = "GetUserByUserID" THEN {d \in coll : d.user_id = rq.key}
    ELSE IF rq.op = "GetUserByEmail" THEN {d \in coll : d.email = rq.key}
    ELSE IF rq.op = "getUserSearchHandler"
    THEN IF rq.user_id # ""
         THEN {d \in coll : d.user_id = rq.user_id}
         ELSE {d \in coll : d.email = rq.email}
    ELSE coll

\* the answers the read request rq can get from the store coll when its
\* store call succeeds
C26_Answers(coll, rq) ==
    IF rq.op = "ListUsers"
    THEN {[status |-> StatusOK,
           body |-> Some([users |-> IF coll = {} THEN Nil
                                    ELSE Some({JSON(d) : d \in coll}),
                          count |-> Cardinality(coll)])]}
    ELSE IF C26_Asked(coll, rq) = {}
    THEN {[status |-> StatusNotFound, body |-> Some([error |-> "User not found"])]}
    ELSE {[status |-> StatusOK, body |-> Some(JSON(d))] : d \in C26_Asked(coll, rq)}

C26_Reads ==
    {"GetUser", "GetUserByUserID", "GetUserByEmail", "getUserSearchHandler", "ListUsers"}

\* C26: no response body of any handler (create, get, search, update, list)
\* contains a user's password or password hash: a body is an error message,
\* a confirmation, or shows users by their public fields only; and the
\* answer to a read request is one the same store with other password
\* hashes gives too, the two stores having the same answers.
C26_NoPasswordInResponses ==
    \A p \in Procs :
        (pc[p] = "done" /\ req[p].entry = "http")
        => /\ ~IsNil(resp[p].body)
           /\ \/ DOMAIN Val(resp[p].body) = {"error"}
              \/ DOMAIN Val(resp[p].body) = {"message"}
              \/ /\ DOMAIN Val(resp[p].body) = C26_Public
                 /\ Val(resp[p].body) = C26_View(Val(ret[p].user))
              \/ /\ DOMAIN Val(resp[p].body) = {"users", "count"}
                 /\ \A u \in C22_Entities(Val(resp[p].body).users) :
                      /\ DOMAIN u = C26_Public
                      /\ \E d \in collection : u = C26_View(d)
           /\ (req[p].op \in C26_Reads /\ calls[p] = 1 /\ ~storeErr[p])
              => /\ resp[p] \in C26_Answers(collection, req[p])
                 /\ C26_Answers(collection, req[p])
                      = C26_Answers(C26_Rehash(collection), req[p])
           /\ (req[p].op \in C26_Reads /\ ~(calls[p] = 1 /\ ~storeErr[p]))
              => DOMAIN Val(resp[p].body) = {"error"}

\* GET /users was answered with two users, shown by their public fields,
\* while both are stored with a password hash
C26_Witness ==
    \E p \in Procs :
        /\ Done(p, "ListUsers")
        /\ req[p].entry = "http"
        /\ resp[p].status = StatusOK
        /\ Val(resp[p].body).count = 2
        /\ \A u \in C22_Entities(Val(resp[p].body).users) : DOMAIN u = C26_Public
        /\ \A d \in collection : d.password # <<>>

\* C27: in every reachable state every stored user has a non-empty user_id
\* and a non-empty email: no Create or Update request accepted through the
\* handlers, an Update whose user_id or email is present with the empty
\* string included, stores an empty value.
C27_NoEmptyKeys ==
    \A d \in collection : d.user_id # "" /\ d.email # ""

\* C28: within one Create the store calls come in a fixed order, each issued
\* only after the one before it returned no match: the email lookup is the
\* second call and is issued only when no stored user holds the requested
\* user_id (so a request colliding on both fields never reaches it), and the
\* insert is the third call and is issued only when no stored user holds the
\* requested user_id or the requested email.
C28_CreateOrder ==
    \A p \in Procs :
        /\ pc[p] = "CreateUser:findUserID" => calls[p] = 0
        /\ pc[p] = "CreateUser:findEmail"
           => /\ calls[p] = 1
              /\ ~storeErr[p]
              /\ ~\E d \in collection : d.user_id = req[p].user_id
        /\ pc[p] = "CreateUser:insertOne"
           => /\ calls[p] = 2
              /\ ~storeErr[p]
              /\ ~\E d \in collection :
                     d.user_id = req[p].user_id \/ d.email = req[p].email

\* the request of p was an Update that ended with an error, at the handler
\* or in the service
C29_Failed(p) ==
    /\ Done(p, "UpdateUser")
    /\ ret[p].err # "" \/ resp[p].status \notin {NoResp.status, StatusOK}

\* C29 as claimed: whenever Update ends with an error, the failed re-fetch
\* included, its write has changed no document.
C29_Original ==
    \A p \in Procs : C29_Failed(p) => ~local[p].modified

\* C29: with no other request running meanwhile, an Update that ends with
\* any error other than the failed re-fetch has left the collection as it
\* was when it started: the only step of an Update that changes the
\* collection is its successful write, which goes on to the re-fetch, and
\* no step of an Update, on a well-formed id without a stored record
\* included, adds or removes a record.  When the re-fetch fails the write
\* has already been applied.
C29_ErrorLeavesCollection ==
    /\ [](\A p \in Procs :
            (C29_Failed(p) /\ local[p].modified)
                => ret[p].err = ErrGetUser /\ storeErr[p])
    /\ [][\A p \in Procs :
            (req'[p].op = "UpdateUser" /\ pc'[p] # pc[p])
                => /\ {d.id : d \in collection'} = {d.id : d \in collection}
                   /\ collection' # collection
                        => /\ pc[p] = "UpdateUser:updateOne"
                           /\ pc'[p] = "UpdateUser:getUserByID"
                   /\ local'[p].modified
                        = IF pc[p] = "UpdateUser:updateOne"
                          THEN collection' # collection
                          ELSE IF pc[p] = "idle" THEN FALSE
                          ELSE local[p].modified]_vars

\* an Update of a well-formed id that no record has ended with not found
\* and the stored records are as they were
C29_Witness ==
    \E p \in Procs :
        /\ C29_Failed(p)
        /\ ret[p].err = ErrUserNotFound
        /\ ~IsNil(req[p].user_id)
        /\ ~local[p].modified
        /\ collection # {}
        /\ \A d \in collection : Hex(d.id) # req[p].id

\* C30: an identifier whose record has been deleted never has a record
\* again, whatever requests run concurrently (an Update of it that was in
\* flight when the Delete ran and writes afterwards, a Create that inserts
\* afterwards): no step takes an identifier out of the set of deleted ones,
\* and every GET /users/{id} of a deleted identifier fails with not found
\* (with the store's failure when the lookup itself fails).
C30_DeletedStaysDeleted ==
    [][/\ C21_Deleted \subseteq C21_Deleted'
       /\ \A p \in Procs :
            (/\ req'[p].op = "GetUser"
             /\ pc[p] = "idle" /\ pc'[p] = "done"
             /\ ~ObjectIDFromHex(req'[p].id).err
             /\ ObjectIDFromHex(req'[p].id).oid \in C21_Deleted)
                => /\ ret'[p].err = IF storeErr'[p] THEN ErrGetUser
                                                     ELSE ErrUserNotFound
                   /\ resp'[p].status = IF storeErr'[p]
                                         THEN StatusInternalServerError
                                         ELSE StatusNotFound]_vars

\* a Delete has just succeeded while an Update of the same identifier is in
\* flight with its write still to come
C30_Witness ==
    \E p, q \in Procs :
        /\ Done(q, "DeleteUser")
        /\ ret[q].err = ""
        /\ resp[q].status = StatusOK
        /\ pc[p] = "UpdateUser:updateOne"
        /\ req[p].id = req[q].id
        /\ Val(local[p].objectID) \in C21_Deleted

====
